---- MODULE Spec2Model ----
(***************************************************************************)
(* HIBID.py: the page walk of scrape_auction_data, the thread pool that    *)
(* runs scrape_prices for every lot title of a page, the two price         *)
(* sources search_ebay / search_yahoo, the weighted average, and           *)
(* save_items_to_excel.  Prices are integers in cents (every price the     *)
(* program handles is rounded to 2 decimals); Python's None is the         *)
(* integer None below, which no price can equal (the numeric pattern       *)
(* \d+(\.\d+)? matches no sign).                                           *)
(***************************************************************************)
EXTENDS Integers, Sequences, FiniteSets, TLC

VARIABLES
    pc,           \* position of the driver (scrape_auction_data)
    error,        \* the exception that ended the run, "none" while there is none
    page_number,  \* page_number
    items_data,   \* items_data: the accumulated rows [title, ebay, yahoo, wavg]
    save_path,    \* save_path: Unbound before the first assignment, then the metadata it is built from
    titles,       \* titles of the page being processed
    futures,      \* futures of the page being processed, one per title
    idx,          \* position of the zip(titles, futures) loop
    base,         \* len(items_data) when the page's loop started
    fetched,      \* what the site answered to each page request, in request order
    writes,       \* the calls of the report writer (df.to_excel), in order
    report,       \* the rows handed to the report writer by the last call
    accumulated,  \* the rows in the order the loop appended them
    ebay_price,   \* inputs and result of the weighted average on its own, results
    yahoo_price,  \* of the two price parsers on their own
    weighted_average_price,
    price_elements \* the price elements of a results page, for the parsers on their own

vars == << pc, error, page_number, items_data, save_path, titles, futures, idx,
           base, fetched, writes, report, accumulated, ebay_price, yahoo_price,
           weighted_average_price, price_elements >>

aggVars == << ebay_price, yahoo_price, weighted_average_price, price_elements >>

-----------------------------------------------------------------------------
(* Bounds of the model *)

MaxPage == 4        \* pages the site is asked for (walk and enrichment specifications)
MaxTitles == 2      \* lot titles on one page (walk specification)
MaxItems == 3       \* lots of the whole auction (walk specification)
EnrichItems == 2    \* lots of the whole auction (enrichment specification)
PoolTitles == 6     \* lot titles on one page (pool specification)
PoolPages == 7      \* pages the site is asked for (pool specification)

(* Program constants *)

None == -1          \* Python's None
Unbound == -2       \* a local name not assigned yet
max_workers == 5
weight_yahoo == 40  \* 0.4, in hundredths
weight_ebay == 60   \* 0.6, in hundredths
SavePeriod == 3     \* page_number % 3 == 0

-----------------------------------------------------------------------------
(* Arithmetic *)

RECURSIVE Sum(_)
Sum(s) == IF s = << >> THEN 0 ELSE Head(s) + Sum(Tail(s))

\* round(a / b) for a >= 0, b > 0: nearest integer, a tie going to the even one
\* (used where no tie can occur)
RoundDiv(a, b) ==
    LET q == a \div b
        r == a % b
    IN  IF 2 * r < b THEN q
        ELSE IF 2 * r > b THEN q + 1
        ELSE IF q % 2 = 0 THEN q ELSE q + 1

\* round(sum(prices) / len(prices), 2), in cents.  The quotient is a binary
\* float: when the mean lies half-way between two cents, the float lies a little
\* to one side or the other (or exactly half-way), and which cent comes out
\* depends on the digits; both are possible results here.
Mean(prices) ==
    LET q == Sum(prices) \div Len(prices)
        r == Sum(prices) % Len(prices)
    IN  IF 2 * r < Len(prices) THEN { q }
        ELSE IF 2 * r > Len(prices) THEN { q + 1 }
        ELSE { q, q + 1 }

-----------------------------------------------------------------------------
(* Price sources.  A response is what the GET of the search URL gives: an  *)
(* exception of requests (kind), or a page whose price elements are elems: *)
(* each element is the number its text holds, or None when the pattern     *)
(* finds no number in it.                                                  *)

RequestExceptions == { "ConnectionError", "Timeout", "HTTPError" }

Caught_HTTPErrorOnly(kind) == kind = "HTTPError"

\* except requests.exceptions.RequestException
Caught(kind) == kind \in RequestExceptions

RECURSIVE YahooPrices(_)
YahooPrices(elems) ==
    IF elems = << >> THEN << >>
    ELSE IF Head(elems) # None THEN << Head(elems) >> \o YahooPrices(Tail(elems))
    ELSE YahooPrices(Tail(elems))

\* the values search_yahoo can return for a page with these price elements
YahooParse(elems) ==
    LET prices == YahooPrices(elems)
    IN  IF prices # << >> THEN Mean(prices) ELSE { None }

RECURSIVE EbayLoop(_, _)
EbayLoop(elems, prices) ==
    IF elems = << >> THEN (IF prices # << >> THEN Mean(prices) ELSE { None })
    ELSE IF Head(elems) # None THEN EbayLoop(Tail(elems), Append(prices, Head(elems)))
    ELSE IF prices = << >> THEN { None }
    ELSE EbayLoop(Tail(elems), prices)

EbayParse_NoShortCircuit(elems) == YahooParse(elems)

\* the values search_ebay can return for a page with these price elements
EbayParse(elems) == EbayLoop(elems, << >>)

\* the outcomes of a price source: a value returned, or the exception that escapes
search_yahoo(resp) ==
    IF resp.kind = "ok" THEN { [exc |-> "none", val |-> v] : v \in YahooParse(resp.elems) }
    ELSE IF Caught(resp.kind) THEN { [exc |-> "none", val |-> None] }
    ELSE { [exc |-> resp.kind, val |-> None] }

search_ebay(resp) ==
    IF resp.kind = "ok" THEN { [exc |-> "none", val |-> v] : v \in EbayParse(resp.elems) }
    ELSE IF Caught(resp.kind) THEN { [exc |-> "none", val |-> None] }
    ELSE { [exc |-> resp.kind, val |-> None] }

Failures == { [kind |-> k, elems |-> << >>] : k \in RequestExceptions }

Page(elems) == [kind |-> "ok", elems |-> elems]

\* what a response is: a failed request (no connection, timeout, status not 2xx),
\* a page without price elements, a page none of whose elements holds a number,
\* a page with prices
Outcome(resp) ==
    IF resp.kind # "ok" THEN "failure"
    ELSE IF resp.elems = << >> THEN "zero results"
    ELSE IF \A j \in DOMAIN resp.elems : resp.elems[j] = None THEN "parse failure"
    ELSE "prices"

\* responses of the enrichment specification: every failure, no element, a
\* malformed element, prices
EbayResponses ==
    Failures \cup { Page(<< >>), Page(<< None >>), Page(<< None, 100 >>),
                    Page(<< 0 >>), Page(<< 100, None >>), Page(<< 0, 200 >>) }

YahooResponses ==
    Failures \cup { Page(<< >>), Page(<< None >>), Page(<< 0 >>),
                    Page(<< None, 100 >>) }

\* responses of the walk specification: a failure, prices of 0.00 and 1.00
WalkEbayResponses ==
    { [kind |-> "Timeout", elems |-> << >>], Page(<< 0 >>), Page(<< 0, 200 >>) }

WalkYahooResponses ==
    { [kind |-> "HTTPError", elems |-> << >>], Page(<< 0 >>), Page(<< None, 100 >>) }

\* responses of the pool specification
PoolEbayResponses == { Page(<< None >>), [kind |-> "Timeout", elems |-> << >>] }

PoolYahooResponses == { Page(<< >>) }

-----------------------------------------------------------------------------
(* Weighted average *)

Round2(x) == RoundDiv(x, 100)

WeightedAverage_Swapped(ebay, yahoo) ==
    IF ebay # None /\ yahoo # None
    THEN Round2(yahoo * weight_ebay + ebay * weight_yahoo)
    ELSE IF ebay # None THEN ebay
    ELSE IF yahoo # None THEN yahoo
    ELSE None

WeightedAverage_Truthy(ebay, yahoo) ==
    IF ebay \notin {None, 0} /\ yahoo \notin {None, 0}
    THEN Round2(yahoo * weight_yahoo + ebay * weight_ebay)
    ELSE IF ebay \notin {None, 0} THEN ebay
    ELSE IF yahoo \notin {None, 0} THEN yahoo
    ELSE None

WeightedAverage(ebay, yahoo) ==
    IF ebay # None /\ yahoo # None
    THEN Round2(yahoo * weight_yahoo + ebay * weight_ebay)
    ELSE IF ebay # None THEN ebay
    ELSE IF yahoo # None THEN yahoo
    ELSE None

Row(title, ebay, yahoo) ==
    [title |-> title, ebay |-> ebay, yahoo |-> yahoo,
     wavg |-> WeightedAverage(ebay, yahoo)]

-----------------------------------------------------------------------------
(* save_items_to_excel *)

\* key(a) >= key(b) for key = -inf if x[3] is None else -x[3]
KeyGE(a, b) == b.wavg = None \/ (a.wavg # None /\ a.wavg <= b.wavg)

\* one row put into a list sorted by descending key, behind the rows whose key is
\* not smaller (list.sort is stable, also with reverse=True)
RECURSIVE Insert(_, _)
Insert(sorted, row) ==
    IF sorted = << >> THEN << row >>
    ELSE IF KeyGE(Head(sorted), row) THEN << Head(sorted) >> \o Insert(Tail(sorted), row)
    ELSE << row >> \o sorted

RECURSIVE ListSort(_)
ListSort(rows) ==
    IF rows = << >> THEN << >>
    ELSE Insert(ListSort(SubSeq(rows, 1, Len(rows) - 1)), rows[Len(rows)])

IsPresent(row) == row.wavg # None

IsAbsent(row) == row.wavg = None

\* the orders df.sort_values(ascending=False, na_position='last') can give: the
\* default kind is quicksort, which is not stable, so rows of equal value come in
\* any order; the rows without a value follow in the order they had
DataFrameOrders_Unsorted(rows) == { rows }

DataFrameOrders(rows) ==
    LET present == SelectSeq(rows, IsPresent)
        absent == SelectSeq(rows, IsAbsent)
        n == Len(present)
        orders == IF n = 0 THEN { << >> }
                  ELSE { q \in Permutations(1..n) :
                           \A j \in 1..(n - 1) : present[q[j]].wavg >= present[q[j + 1]].wavg }
    IN  { [k \in 1..Len(rows) |-> IF k <= n THEN present[q[k]] ELSE absent[k - n]] :
            q \in orders }

WriterOutcomes == { "ok", "IOError" }

\* save_items_to_excel(items_data, save_path), called for the periodic save
\* (kind "periodic") or after the loop (kind "final"); out is what the writer does
SaveItemsToExcel(kind, out) ==
    /\ items_data' = ListSort(items_data)
    /\ report' \in DataFrameOrders(items_data')
    /\ writes' = Append(writes, [kind |-> kind, page |-> page_number,
                                 count |-> Len(items_data), path |-> save_path,
                                 requests |-> Len(fetched), out |-> out])

-----------------------------------------------------------------------------
(* The site.  The auction is a list of lots; a page shows the next n of    *)
(* them.  The title of the j-th lot:                                       *)

NumTitles == 4      \* distinct titles of the catalogue (a bound)

LotTitle(j) == ((j - 1) % NumTitles) + 1

Min(a, b) == IF a < b THEN a ELSE b

Metas == { 1 }      \* the (company name, end date) pairs a page can carry

\* a future: the state of its task, what each GET answered (asked: nothing yet),
\* the two prices, and the exception of the task
QueuedFuture ==
    [state |-> "queued", ebay_resp |-> "asked", yahoo_resp |-> "asked",
     ebay |-> None, yahoo |-> None, exc |-> "none"]

-----------------------------------------------------------------------------
(* scrape_auction_data *)

NoMoreItems_Never(ts) == FALSE

\* if not titles: break
NoMoreItems(ts) == ts = << >>

SaveDue_Always(p) == TRUE

\* if page_number % 3 == 0
SaveDue(p) == p % SavePeriod = 0

RecordTitle_First(ts, k) == ts[1]

\* item_title = title.get_text().strip(), title the k-th of zip(titles, futures)
RecordTitle(ts, k) == ts[k]

Log(status, meta, n) == [page |-> page_number, status |-> status, meta |-> meta, n |-> n]

\* lines 81-108: the request of a page, its metadata, its titles, the submits
Fetch(maxPage, maxTitles, maxItems, metas) ==
    /\ pc = "fetch"
    /\ page_number <= maxPage
    /\ \/ /\ fetched' = Append(fetched, Log("transport", None, 0))
          /\ pc' = "aborted"
          /\ error' = "ConnectionError"
          /\ UNCHANGED << save_path, titles, futures, idx, base >>
       \/ /\ fetched' = Append(fetched, Log("non200", None, 0))
          /\ pc' = "final"
          /\ UNCHANGED << error, save_path, titles, futures, idx, base >>
       \/ \E meta \in metas \cup { None },
             n \in 0..Min(maxTitles, maxItems - Len(items_data)) :
            /\ fetched' = Append(fetched, Log("ok", meta, n))
            /\ IF meta = None
               THEN /\ pc' = "aborted"
                    /\ error' = "AttributeError"
                    /\ UNCHANGED << save_path, titles, futures, idx, base >>
               ELSE /\ save_path' = meta
                    /\ titles' = [k \in 1..n |-> LotTitle(Len(items_data) + k)]
                    /\ error' = error
                    /\ IF NoMoreItems(titles')
                       THEN /\ pc' = "final"
                            /\ UNCHANGED << futures, idx, base >>
                       ELSE /\ futures' = [k \in 1..n |-> QueuedFuture]
                            /\ idx' = 1
                            /\ base' = Len(items_data)
                            /\ pc' = IF n = 0 THEN "endpage" ELSE "collect"
    /\ UNCHANGED << page_number, items_data, writes, report >>
    /\ UNCHANGED << accumulated, aggVars >>

Running == { k \in DOMAIN futures : futures[k].state \in { "ebay", "yahoo" } }

WorkerFree_Always == TRUE

\* ThreadPoolExecutor(max_workers=5): a thread of the pool is idle, or the pool
\* has fewer than max_workers threads and starts one
WorkerFree == Cardinality(Running) < max_workers

\* a worker of the pool takes the oldest queued task
StartTask ==
    /\ WorkerFree
    /\ \E k \in DOMAIN futures :
         /\ futures[k].state = "queued"
         /\ \A j \in 1..(k - 1) : futures[j].state # "queued"
         /\ futures' = [futures EXCEPT ![k].state = "ebay"]
    /\ UNCHANGED << pc, error, page_number, items_data, save_path, titles, idx,
                    base, fetched, writes, report >>
    /\ UNCHANGED << accumulated, aggVars >>

\* scrape_prices, line 32
SearchEbay(responses) ==
    /\ \E k \in DOMAIN futures, resp \in responses :
         /\ futures[k].state = "ebay"
         /\ \E o \in search_ebay(resp) :
                futures' = [futures EXCEPT ![k] =
                    IF o.exc # "none"
                    THEN [@ EXCEPT !.state = "done", !.ebay_resp = Outcome(resp),
                                   !.exc = o.exc]
                    ELSE [@ EXCEPT !.state = "yahoo", !.ebay_resp = Outcome(resp),
                                   !.ebay = o.val]]
    /\ UNCHANGED << pc, error, page_number, items_data, save_path, titles, idx,
                    base, fetched, writes, report >>
    /\ UNCHANGED << accumulated, aggVars >>

SearchYahoo_Appends(responses) ==
    /\ \E k \in DOMAIN futures, resp \in responses :
         /\ futures[k].state = "yahoo"
         /\ \E o \in search_yahoo(resp) :
              /\ futures' = [futures EXCEPT ![k] =
                    [@ EXCEPT !.state = "done", !.yahoo_resp = Outcome(resp),
                              !.yahoo = o.val, !.exc = o.exc]]
              /\ items_data' = Append(items_data, Row(titles[k], futures[k].ebay, o.val))
    /\ UNCHANGED << pc, error, page_number, save_path, titles, idx,
                    base, fetched, writes, report >>
    /\ UNCHANGED << accumulated, aggVars >>

\* scrape_prices, lines 33-34
SearchYahoo(responses) ==
    /\ \E k \in DOMAIN futures, resp \in responses :
         /\ futures[k].state = "yahoo"
         /\ \E o \in search_yahoo(resp) :
                futures' = [futures EXCEPT ![k] =
                    IF o.exc # "none"
                    THEN [@ EXCEPT !.state = "done", !.yahoo_resp = Outcome(resp),
                                   !.exc = o.exc]
                    ELSE [@ EXCEPT !.state = "done", !.yahoo_resp = Outcome(resp),
                                   !.yahoo = o.val]]
    /\ UNCHANGED << pc, error, page_number, items_data, save_path, titles, idx,
                    base, fetched, writes, report >>
    /\ UNCHANGED << accumulated, aggVars >>

ResultReady_NoWait(f) == TRUE

\* future.result() returns when the task has ended
ResultReady(f) == f.state = "done"

NextPage_Skip(p) == p + 2

\* page_number += 1
NextPage(p) == p + 1

\* lines 110-126: future.result() of the idx-th future and the append
Collect ==
    /\ pc = "collect"
    /\ ResultReady(futures[idx])
    /\ IF futures[idx].exc # "none"
       THEN /\ pc' = "aborted"
            /\ error' = futures[idx].exc
            /\ UNCHANGED << items_data, accumulated >>
       ELSE /\ LET row == Row(RecordTitle(titles, idx), futures[idx].ebay,
                              futures[idx].yahoo)
               IN  /\ items_data' = Append(items_data, row)
                   /\ accumulated' = Append(accumulated, row)
            /\ pc' = "sleep"
            /\ UNCHANGED error
    /\ UNCHANGED << page_number, save_path, titles, futures, idx, base, fetched,
                    writes, report >>
    /\ UNCHANGED aggVars

\* line 127, then the next turn of the loop or the end of the with block
Sleep ==
    /\ pc = "sleep"
    /\ IF idx < Len(titles)
       THEN idx' = idx + 1 /\ pc' = "collect"
       ELSE idx' = idx /\ pc' = "endpage"
    /\ UNCHANGED << error, page_number, items_data, save_path, titles, futures,
                    base, fetched, writes, report >>
    /\ UNCHANGED << accumulated, aggVars >>

\* lines 129-135
EndOfPage ==
    /\ pc = "endpage"
    /\ IF SaveDue(page_number)
       THEN \E out \in WriterOutcomes :
              /\ SaveItemsToExcel("periodic", out)
              /\ IF out = "ok"
                 THEN page_number' = NextPage(page_number) /\ pc' = "fetch" /\ error' = error
                 ELSE page_number' = page_number /\ pc' = "aborted" /\ error' = out
       ELSE /\ page_number' = NextPage(page_number)
            /\ pc' = "fetch"
            /\ UNCHANGED << error, items_data, writes, report >>
    /\ UNCHANGED << save_path, titles, futures, idx, base, fetched >>
    /\ UNCHANGED << accumulated, aggVars >>

\* lines 137-138
Final ==
    /\ pc = "final"
    /\ IF save_path = Unbound
       THEN /\ pc' = "aborted"
            /\ error' = "UnboundLocalError"
            /\ UNCHANGED << items_data, writes, report >>
       ELSE \E out \in WriterOutcomes :
              /\ SaveItemsToExcel("final", out)
              /\ IF out = "ok"
                 THEN pc' = "done" /\ error' = error
                 ELSE pc' = "aborted" /\ error' = out
    /\ UNCHANGED << page_number, save_path, titles, futures, idx, base, fetched >>
    /\ UNCHANGED << accumulated, aggVars >>

\* the weighted average on its own
Combine ==
    /\ pc = "combine"
    /\ weighted_average_price' = WeightedAverage(ebay_price, yahoo_price)
    /\ pc' = "done"
    /\ UNCHANGED << error, page_number, items_data, save_path, titles, futures,
                    idx, base, fetched, writes, report, accumulated, ebay_price,
                    yahoo_price, price_elements >>

-----------------------------------------------------------------------------
(* Specifications *)

InitWalk ==
    /\ error = "none"
    /\ page_number = 1
    /\ items_data = << >>
    /\ save_path = Unbound
    /\ titles = << >>
    /\ futures = << >>
    /\ idx = 0
    /\ base = 0
    /\ fetched = << >>
    /\ writes = << >>
    /\ report = << >>
    /\ accumulated = << >>

Init ==
    /\ pc = "fetch"
    /\ InitWalk
    /\ ebay_price = None
    /\ yahoo_price = None
    /\ weighted_average_price = Unbound
    /\ price_elements = << >>

Next ==
    \/ Fetch(MaxPage, MaxTitles, MaxItems, Metas)
    \/ StartTask
    \/ SearchEbay(WalkEbayResponses)
    \/ SearchYahoo(WalkYahooResponses)
    \/ Collect
    \/ Sleep
    \/ EndOfPage
    \/ Final

\* the walk of an auction of at most MaxItems lots
Spec == Init /\ [][Next]_vars

NextEnrich ==
    \/ Fetch(MaxPage, MaxTitles, EnrichItems, Metas)
    \/ StartTask
    \/ SearchEbay(EbayResponses)
    \/ SearchYahoo(YahooResponses)
    \/ Collect
    \/ Sleep
    \/ EndOfPage
    \/ Final

\* an auction of at most EnrichItems lots, every kind of answer of the two sources
SpecEnrich == Init /\ [][NextEnrich]_vars

NextPool ==
    \/ Fetch(PoolPages, PoolTitles, PoolTitles, Metas)
    \/ StartTask
    \/ SearchEbay(PoolEbayResponses)
    \/ SearchYahoo(PoolYahooResponses)
    \/ Collect
    \/ Sleep
    \/ EndOfPage
    \/ Final

\* an auction of at most PoolTitles lots, on one page (more titles than workers)
\* or on several
SpecPool == Init /\ [][NextPool]_vars

LivePages == 5      \* pages the site is asked for (fair specification)

LiveItems == 4      \* lots of the whole auction (fair specification)

NextLive ==
    \/ Fetch(LivePages, MaxTitles, LiveItems, Metas)
    \/ StartTask
    \/ SearchEbay(PoolEbayResponses)
    \/ SearchYahoo(PoolYahooResponses)
    \/ Collect
    \/ Sleep
    \/ EndOfPage
    \/ Final

\* the walk when every request returns and every thread keeps running
SpecLive == Init /\ [][NextLive]_vars /\ WF_vars(NextLive)

MetaPages == 3      \* pages the site is asked for (metadata specification)

MetaItems == 2      \* lots of the whole auction (metadata specification)

\* what a page can carry as company name and end date: a page of the same
\* auction can show another name or other dates than the first page did
MetaValues == { 1, 2 }

NextMeta ==
    \/ Fetch(MetaPages, MaxTitles, MetaItems, MetaValues)
    \/ StartTask
    \/ SearchEbay(PoolEbayResponses)
    \/ SearchYahoo(PoolYahooResponses)
    \/ Collect
    \/ Sleep
    \/ EndOfPage
    \/ Final

\* the walk when the pages of the auction need not agree on the metadata
SpecMeta == Init /\ [][NextMeta]_vars

MaxElements == 3    \* price elements of a results page (parser specification)

\* the numbers the price elements carry, in cents
ElementPrices == { 0, 1, 100 }

\* the results pages: the price elements in page order, None a malformed one
ResultPages ==
    UNION { [1..n -> ElementPrices \cup { None }] : n \in 0..MaxElements }

\* the two parsers applied to the price elements of the same page
Parse ==
    /\ pc = "parse"
    /\ ebay_price' \in EbayParse(price_elements)
    /\ yahoo_price' \in YahooParse(price_elements)
    /\ pc' = "parsed"
    /\ UNCHANGED << error, page_number, items_data, save_path, titles, futures,
                    idx, base, fetched, writes, report, accumulated,
                    weighted_average_price, price_elements >>

InitParse ==
    /\ pc = "parse"
    /\ InitWalk
    /\ ebay_price = None
    /\ yahoo_price = None
    /\ weighted_average_price = Unbound
    /\ price_elements \in ResultPages

NextParse == Parse

\* the two parsers on every results page of at most MaxElements price elements
SpecParse == InitParse /\ [][NextParse]_vars

AggQuotes == { None, 0, 1, 2, 3, 33, 50, 4995, 5000, 7500, 10000, 12345 }

InitAgg ==
    /\ pc = "combine"
    /\ InitWalk
    /\ ebay_price \in AggQuotes
    /\ yahoo_price \in AggQuotes
    /\ weighted_average_price = Unbound
    /\ price_elements = << >>

NextAgg == Combine

\* the weighted average of every pair of quotes
SpecAgg == InitAgg /\ [][NextAgg]_vars

-----------------------------------------------------------------------------
(* Properties *)

\* the rows of the page being processed that the loop has appended so far
Appended ==
    IF pc = "collect" THEN idx - 1 ELSE IF pc = "sleep" THEN idx ELSE Len(titles)

InPage == pc \in { "collect", "sleep", "endpage" }

\* C1: while a page is processed, and when its loop has ended, items_data holds
\* behind the rows of the earlier pages exactly one row per title handled so far,
\* the k-th of them carrying the k-th title of the page; when the loop has ended
\* these are as many rows as the page has titles, and no title is None.
OneRecordPerTitle ==
    InPage =>
        /\ Len(items_data) = base + Appended
        /\ \A k \in 1..Appended :
             /\ items_data[base + k].title = titles[k]
             /\ items_data[base + k].title # None

\* a page with more titles than workers, all of them appended, the run not over
MoreTitlesThanWorkers ==
    /\ pc = "endpage"
    /\ Len(titles) > max_workers
    /\ Len(items_data) = base + Len(titles)

\* C2: every row of items_data has a weighted average if and only if it has an
\* eBay price or a Yahoo price; a price of 0 is a price.
EstimateIffQuote ==
    \A k \in DOMAIN items_data :
        (items_data[k].wavg # None) <=>
            (items_data[k].ebay # None \/ items_data[k].yahoo # None)

\* a row whose only price is 0
ZeroQuoteRow ==
    \E k \in DOMAIN items_data :
        /\ items_data[k].ebay = 0
        /\ items_data[k].yahoo = None
        /\ items_data[k].wavg = 0

\* C3: the weighted average of two prices is the multiple of 0.01 nearest to
\* 0.6 * eBay + 0.4 * Yahoo; of one price alone it is that price; 100.00 and
\* 50.00 give 80.00, no eBay price and 75.00 give 75.00.
WeightedEstimateFormula ==
    pc = "done" =>
        /\ (ebay_price # None /\ yahoo_price # None) =>
             /\ weighted_average_price # None
             /\ 2 * (100 * weighted_average_price - (60 * ebay_price + 40 * yahoo_price)) <= 100
             /\ 2 * ((60 * ebay_price + 40 * yahoo_price) - 100 * weighted_average_price) <= 100
        /\ (ebay_price # None /\ yahoo_price = None) => weighted_average_price = ebay_price
        /\ (ebay_price = None /\ yahoo_price # None) => weighted_average_price = yahoo_price
        /\ (ebay_price = 10000 /\ yahoo_price = 5000) => weighted_average_price = 8000
        /\ (ebay_price = None /\ yahoo_price = 7500) => weighted_average_price = 7500

\* 100.00 and 50.00 combined
HundredAndFifty ==
    /\ pc = "done"
    /\ ebay_price = 10000
    /\ yahoo_price = 5000
    /\ weighted_average_price = 8000

\* C4: whatever the two sources answer, no exception leaves a price source, a
\* source that failed or found no price gives None, the Yahoo source is asked
\* whatever the eBay source answered, the row of the title is appended with the
\* title and the two prices (without a weighted average when both are None), and
\* no exception of a price request ends the run (an exception of a request that
\* ended the run is the one of the page request).
LookupFailuresAbsorbed ==
    /\ (error \in RequestExceptions) => fetched[Len(fetched)].status = "transport"
    /\ \A k \in DOMAIN futures :
         LET f == futures[k]
         IN  /\ f.exc = "none"
             /\ (f.state \in { "yahoo", "done" }) =>
                  /\ f.ebay_resp # "asked"
                  /\ (f.ebay_resp # "prices") => f.ebay = None
             /\ (f.state = "done") =>
                  /\ f.yahoo_resp # "asked"
                  /\ (f.yahoo_resp # "prices") => f.yahoo = None
             /\ (InPage /\ k <= Appended) =>
                  /\ f.state = "done"
                  /\ items_data[base + k].title = titles[k]
                  /\ items_data[base + k].ebay = f.ebay
                  /\ items_data[base + k].yahoo = f.yahoo
                  /\ (f.ebay = None /\ f.yahoo = None) => items_data[base + k].wavg = None

\* both sources failed and the row is there, the run going on
BothSourcesFailed ==
    /\ pc = "sleep"
    /\ futures[idx].ebay_resp = "failure"
    /\ futures[idx].yahoo_resp = "failure"
    /\ items_data[base + idx] =
         [title |-> titles[idx], ebay |-> None, yahoo |-> None, wavg |-> None]

\* the number of k with seq[k] = r
Count(seq, r) == Cardinality({ k \in DOMAIN seq : seq[k] = r })

IsPermutation(a, b) ==
    /\ Len(a) = Len(b)
    /\ \A k \in DOMAIN a : Count(a, a[k]) = Count(b, a[k])

\* descending weighted average, the rows without one behind the others
Ranked(rows) ==
    \A j, k \in DOMAIN rows :
        j < k =>
            \/ rows[k].wavg = None
            \/ (rows[j].wavg # None /\ rows[j].wavg >= rows[k].wavg)

\* C5: whenever save_items_to_excel hands rows to the report writer, periodic or
\* final, the rows are a permutation of items_data as it was at the call, in
\* descending order of weighted average with the rows without one last.
SnapshotRanked ==
    [][writes' # writes => (Ranked(report') /\ IsPermutation(report', items_data))]_vars

\* a snapshot of three rows in another order than they were appended in: values,
\* then a row without a value
RankedSnapshotOfThree ==
    /\ writes # << >>
    /\ Len(report) = 3
    /\ report[1].wavg > report[2].wavg
    /\ report[2].wavg # None
    /\ report[3].wavg = None
    /\ report[1].title > report[2].title
    /\ report[3].title < report[1].title

LastFetch == fetched[Len(fetched)]

Halted == pc \in { "done", "aborted" }

FinalWrites == { k \in DOMAIN writes : writes[k].kind = "final" }

PeriodicWrites == { k \in DOMAIN writes : writes[k].kind = "periodic" }

\* C6: when the walk has ended by a page that could not be fetched (status not
\* 200) or by a page without lot titles, on any page, and the run is over, the
\* report writer was called exactly once for the final snapshot, as the last
\* call, with all the rows of items_data.
FinalSnapshotOnTermination ==
    ( /\ Halted
      /\ fetched # << >>
      /\ \/ LastFetch.status = "non200"
         \/ (LastFetch.status = "ok" /\ LastFetch.meta # None /\ LastFetch.n = 0) ) =>
        /\ Cardinality(FinalWrites) = 1
        /\ writes[Len(writes)].kind = "final"
        /\ writes[Len(writes)].count = Len(items_data)

RECURSIVE LotsUpTo(_)
\* the lots of the pages 1..p
LotsUpTo(p) == IF p = 0 THEN 0 ELSE fetched[p].n + LotsUpTo(p - 1)

\* the pages whose processing has come to its end (line 135 ran, or the periodic
\* save of the page raised)
CompletedPages ==
    { p \in 1..page_number :
        \/ p < page_number
        \/ /\ pc = "aborted"
           /\ error = "IOError"
           /\ writes[Len(writes)].kind = "periodic" }

\* C7: the periodic snapshots are those of the completed pages 3, 6, ..., one
\* each and no other; each is taken when the page's rows are all appended (it
\* holds the rows of the pages 1..N) and before page N + 1 is requested.
PeriodicEveryThirdPage ==
    /\ { writes[k].page : k \in PeriodicWrites } = { p \in CompletedPages : p % 3 = 0 }
    /\ \A j, k \in PeriodicWrites : writes[j].page = writes[k].page => j = k
    /\ \A k \in PeriodicWrites :
         /\ writes[k].requests = writes[k].page
         /\ writes[k].count = LotsUpTo(writes[k].page)

\* page 6 completed: snapshots after page 3 and after page 6, page 7 requested
SnapshotsAfterThreeAndSix ==
    /\ page_number = 7
    /\ Len(fetched) = 7
    /\ Cardinality(PeriodicWrites) = 2
    /\ writes[1].page = 3
    /\ writes[2].page = 6
    /\ writes[2].count = 6

EmptyPage(k) ==
    /\ k \in DOMAIN fetched
    /\ fetched[k].status = "ok"
    /\ fetched[k].n = 0

\* C8: a page k fetched with status 200 and no lot title is the last page
\* requested, and the run then comes to its end, whatever the pages before held.
EmptyPageEndsWalk ==
    /\ [](\A k \in DOMAIN fetched : EmptyPage(k) => (k = Len(fetched) /\ page_number = k))
    /\ (\E k \in DOMAIN fetched : EmptyPage(k)) ~> Halted

\* page 3 empty after two pages with lots, the run over
EmptyThirdPage ==
    /\ EmptyPage(3)
    /\ fetched[1].n = 2
    /\ fetched[2].n = 1
    /\ pc = "done"

\* C9: a page request that fails, by its status or by an exception of the
\* transport, ends the walk like a page without lots: the run goes on to the
\* final save and is not ended by the exception of the request.
FetchFailureEndsWalk ==
    (fetched # << >> /\ LastFetch.status \in { "non200", "transport" }) =>
        /\ error # "ConnectionError"
        /\ (pc \in { "final", "done" } \/ error \in { "IOError", "UnboundLocalError" })

\* C10: a page fetched with status 200 that holds no lot title ends the walk
\* without an error; on the pages after the first also when the page holds no
\* company name or date.
EmptyPageEndsCleanly ==
    (fetched # << >> /\ LastFetch.status = "ok" /\ LastFetch.n = 0
        /\ (LastFetch.page > 1 \/ LastFetch.meta # None)) =>
        /\ error # "AttributeError"
        /\ (pc \in { "final", "done" } \/ error = "IOError")

\* C11: once page 1 has been processed, save_path is what page 1 gave, whatever
\* the later pages carry, and the run is ended by a page without company name or
\* date only when that page is page 1.
MetadataFromFirstPageOnly ==
    /\ (Len(fetched) > 1 /\ save_path # Unbound) => save_path = fetched[1].meta
    /\ error = "AttributeError" => Len(fetched) = 1

\* the place of a row in the order of accumulation
Pos(row) == CHOOSE k \in DOMAIN accumulated : accumulated[k] = row

\* C12: in every snapshot handed to the report writer, two rows of equal
\* weighted average, and two rows without one, come in the order in which the
\* loop appended them.
SnapshotStable ==
    writes # << >> =>
        \A i, j \in DOMAIN report :
            (i < j /\ report[i].wavg = report[j].wavg) => Pos(report[i]) < Pos(report[j])

\* C13: every step leaves items_data as it is or puts one row at its end; a
\* snapshot, periodic or final, changes neither its rows nor their order.
AccumulatedAppendOnly ==
    [][\/ items_data' = items_data
       \/ /\ Len(items_data') = Len(items_data) + 1
          /\ SubSeq(items_data', 1, Len(items_data)) = items_data]_vars

\* C14: when the driver is about to request page N + 1, every task of page N
\* has ended, the rows of page N are the last rows accumulated, one per title in
\* title order, and if page N is a multiple of 3 the writer has been called for
\* page N with all the rows.
PagesStrictlySequential ==
    (pc = "fetch" /\ page_number > 1) =>
        /\ Len(fetched) = page_number - 1
        /\ Len(futures) = fetched[page_number - 1].n
        /\ \A k \in DOMAIN futures : futures[k].state = "done"
        /\ Running = {}
        /\ Len(titles) = fetched[page_number - 1].n
        /\ Len(accumulated) = base + Len(titles)
        /\ Len(items_data) = Len(accumulated)
        /\ \A k \in DOMAIN titles : accumulated[base + k].title = titles[k]
        /\ SaveDue(page_number - 1) =>
              /\ writes # << >>
              /\ writes[Len(writes)].kind = "periodic"
              /\ writes[Len(writes)].page = page_number - 1
              /\ writes[Len(writes)].count = Len(accumulated)
              /\ writes[Len(writes)].out = "ok"

\* page 4 about to be requested after a third page of two lots and its snapshot
FourthPageAfterSnapshot ==
    /\ pc = "fetch"
    /\ page_number = 4
    /\ Len(titles) = 2
    /\ Len(accumulated) = 4
    /\ Len(writes) = 1

\* the requests to the price sources that are in progress: a running task is
\* in search_ebay or in search_yahoo
OutboundCalls ==
    Cardinality({ k \in DOMAIN futures : futures[k].state = "ebay" })
        + Cardinality({ k \in DOMAIN futures : futures[k].state = "yahoo" })

\* C15: at every moment at most 5 tasks of the pool are running, however many
\* titles the page has, and at most 10 requests to the price sources are in
\* progress.
AtMostFiveInFlight ==
    /\ Cardinality(Running) <= 5
    /\ OutboundCalls <= 10

\* a page of more than 5 titles: 5 tasks running and one waiting for a worker
FiveRunningOneQueued ==
    /\ Len(titles) > 5
    /\ Cardinality(Running) = 5
    /\ \E k \in DOMAIN futures : futures[k].state = "queued"

\* the tasks of the page that a worker has taken
Started == { k \in DOMAIN futures : futures[k].state # "queued" }

\* the pacing delays of the page that have run to their end
DelaysElapsed == IF pc = "endpage" THEN Len(titles) ELSE idx - 1

\* C16: while a page is processed, a task beyond the first 5 is started only
\* when the pacing delay of an earlier item has elapsed: the tasks started are at
\* most 5 more than the delays elapsed.
PacingThrottlesPool ==
    InPage => Cardinality(Started) <= 5 + DelaysElapsed

\* C17: a call of the report writer that fails with IOError ends the run with
\* that exception and leaves items_data as it was before the call.
WriteFailureKeepsRecords ==
    [][(writes' # writes /\ writes'[Len(writes')].out = "IOError") =>
          /\ error' = "IOError"
          /\ pc' = "aborted"
          /\ items_data' = items_data]_vars

\* C18: every step that changes items_data is a step of the driver, at the
\* append of the loop or in a save, and is not a step of a worker task; the
\* worker tasks change their futures only.
SingleWriter ==
    [][/\ items_data' # items_data =>
            /\ futures' = futures
            /\ pc \in { "collect", "endpage", "final" }
            /\ pc' # pc
       /\ futures' # futures /\ pc' = pc =>
            << items_data, accumulated, writes, report >>' =
                << items_data, accumulated, writes, report >>]_vars

\* the driver has appended the first row of the page while the task of the
\* second title is running
AppendWhileTaskRuns ==
    /\ pc = "sleep"
    /\ idx = 1
    /\ Len(items_data) = base + 1
    /\ Running # {}

\* page k was fetched with status 200, its metadata and at least one lot title
PageWithLots(k) ==
    /\ k \in DOMAIN fetched
    /\ fetched[k].status = "ok"
    /\ fetched[k].meta # None
    /\ fetched[k].n >= 1

\* C19: the k-th request is the request of page k, so the pages are requested
\* in the order 1, 2, 3, ..., each once; a page is followed by a request only
\* if it was fetched with status 200 and held a lot title; and a page fetched
\* with status 200 that held a lot title is followed by the request of the next
\* page unless the run is aborted (pages below the bound LivePages).
PagesInOrder ==
    /\ [](/\ \A k \in DOMAIN fetched : fetched[k].page = k
          /\ \A k \in 1..(Len(fetched) - 1) : PageWithLots(k)
          /\ Len(fetched) \in { page_number - 1, page_number })
    /\ \A N \in 1..(LivePages - 1) :
          PageWithLots(N) ~> (Len(fetched) > N \/ pc = "aborted")

\* four pages of one lot each, then a fifth request that fails: the walk ends
FivePagesWalked ==
    /\ Len(fetched) = 5
    /\ \A k \in 1..4 : PageWithLots(k) /\ fetched[k].n = 1
    /\ fetched[5].status = "non200"
    /\ pc = "done"

\* the parseable elements of the page: how many, and their total
Parseable == { k \in DOMAIN price_elements : price_elements[k] # None }

RECURSIVE TotalUpTo(_)
TotalUpTo(k) ==
    IF k = 0 THEN 0
    ELSE TotalUpTo(k - 1) + (IF k \in Parseable THEN price_elements[k] ELSE 0)

\* r is the mean of the parseable elements rounded to the cent: no further
\* than half a cent from total / count
IsRoundedMean(r) ==
    LET n == Cardinality(Parseable)
        d == r * n - TotalUpTo(Len(price_elements))
    IN  /\ r # None
        /\ n > 0
        /\ 2 * d <= n
        /\ 2 * d >= -n

\* C20: for every results page, search_yahoo returns None iff no element is
\* parseable and otherwise the mean of the parseable elements rounded to 2
\* decimals; search_ebay returns None if the page has no element or its first
\* element is malformed, and otherwise the mean of the parseable elements
\* rounded to 2 decimals.
ParsersAverage ==
    pc = "parsed" =>
        /\ (yahoo_price = None) <=> (Parseable = {})
        /\ Parseable # {} => IsRoundedMean(yahoo_price)
        /\ IF price_elements = << >> \/ price_elements[1] = None
           THEN ebay_price = None
           ELSE IsRoundedMean(ebay_price)

\* a malformed first element before 1.00 and 0.00: no eBay quote, Yahoo 0.50
MalformedFirstElement ==
    /\ pc = "parsed"
    /\ price_elements = << None, 100, 0 >>
    /\ ebay_price = None
    /\ yahoo_price = 50

====
